---------------------------- MODULE Spec2Model ----------------------------
(***************************************************************************)
(* A model of woltka's ordinal read-to-gene matching (woltka/ordinal.py):  *)
(* the chunked alignment reader ordinal_mapper with its flush, the         *)
(* matching functions match_read_gene, match_read_gene_naive,              *)
(* match_read_gene_g1 and match_read_gene_dummy, the gene coordinates      *)
(* reader load_gene_coords and calc_gene_lens; and of the ID list reader   *)
(* read_ids (woltka/file.py).                                              *)
(*                                                                         *)
(* A packed coordinate is the integer                                      *)
(*     pos * 2^48 + len * 2^31 + gene * 2^30 + idx                         *)
(* and is kept here as the record of its four bit fields                   *)
(* [pos, len, gene, idx]; Code carries between the fields exactly as the   *)
(* integer sum does, so the numeric order of the integers is the           *)
(* lexicographic order of the records.                                     *)
(***************************************************************************)
EXTENDS Integers, Sequences, FiniteSets, TLC

VARIABLES
    \* ---- ordinal_mapper ----
    stream,     \* the parsed lines read so far from the alignment file
    n,          \* number of lines per chunk
    th,         \* overlap threshold, the fraction th.num / th.den
    prefix,     \* whether gene ids are prefixed with the nucleotide id
    coords,     \* gene coordinates table: nucl -> sorted packed codes
    idmap,      \* gene identifiers: nucl -> gene ids
    i,          \* index (from 0) of the line the loop is at
    this,       \* current query id
    target,     \* target line number at end of current chunk
    rids,       \* cached query ids of the current chunk
    locmap,     \* cached read coordinates: ordered nucl -> packed codes
    out,        \* the chunks yielded so far
    stats,      \* the lines appended to stats.txt
    algo,       \* history: the algorithm the last flush ran per nucleotide
    first,      \* history: index of the first line of the current chunk
    pc,         \* where ordinal_mapper is
    \* ---- match_read_gene / match_read_gene_naive on one queue ----
    geneque,    \* sorted queue of genes
    readque,    \* paired queue of reads
    queue,      \* sorted merge of both
    k,          \* number of codes of queue walked so far
    genes,      \* current genes cache
    reads,      \* current reads cache
    yielded,    \* (read, gene) pairs yielded by match_read_gene so far
    naive,      \* (read, gene) pairs yielded by match_read_gene_naive
    g1,         \* (read, gene) pairs yielded by match_read_gene_g1
    dummy,      \* what match_read_gene_dummy gives per threshold and lengths
    mpc,        \* where the walk is
    \* ---- load_gene_coords, then calc_gene_lens on what it returns ----
    fh,         \* the lines read so far from the gene coordinates file
    sort,       \* whether to sort gene coordinates
    lcoords,    \* coords of load_gene_coords: ordered nucl -> packed codes
    lidmap,     \* idmap of load_gene_coords: ordered nucl -> gene ids
    lnucl,      \* nucl: the nucleotide gids and queue_extend are bound to
    isdup,      \* whether a duplicate gene id was seen
    used,       \* the gene ids seen
    lens,       \* what calc_gene_lens returns
    lerr,       \* the exception raised, "" when none
    lpc,        \* where load_gene_coords is
    \* ---- read_ids (woltka/file.py) ----
    idfh,       \* the lines read so far from the ID list
    idres,      \* res: the IDs appended so far
    ierr,       \* the message of the ValueError raised, "" when none
    ipc         \* where read_ids is

mvars == <<stream, n, th, prefix, coords, idmap, i, this, target, rids,
           locmap, out, stats, algo, first, pc>>
qvars == <<geneque, readque, queue, k, genes, reads, yielded, naive, g1,
           dummy, mpc>>
lvars == <<fh, sort, lcoords, lidmap, lnucl, isdup, used, lens, lerr, lpc>>
ivars == <<idfh, idres, ierr, ipc>>
vars == <<mvars, qvars, lvars, ivars>>

-----------------------------------------------------------------------------
(* Bounds of the model. *)

\* longest alignment file, in lines
MaxLen == 5
\* largest chunk size n
MaxN == 2
\* most lines of a file that are not alignments of r1 / r2 to N1
MaxOther == 1
\* largest coordinate of the queues drawn for the matching functions
MaxPos == 3
\* most genes in a drawn gene queue
MaxGenes == 1
\* most reads in a drawn read queue
MaxReads == 1
\* longest gene coordinates file, in lines
MaxLines == 3
\* most lines of it that are not a nucleotide name or a sound gene record
MaxOdd == 1
\* longest ID list, in lines
MaxIdLines == 2
\* longest line of an ID list, in characters before the line terminator
MaxIdLen == 2

(* Program constants. *)

\* ordinal_mapper: "n=1000000"
DefaultN == 1000000
\* flush: "if len(locs) > 8"
NaiveCutoff == 8
\* 131071 = (1 << 17) - 1, the mask of the len field
LenMask == 131071
\* 1 << 17, the weight of pos over len in code >> 31
LenSize == LenMask + 1
\* 1 << 30, the weight of the gene bit
IdxSize == 1073741824

-----------------------------------------------------------------------------
(* Packed coordinates. *)

\* a << 48 + b << 31 + c << 30 + d, with the carries of the integer sum
Code(a, b, c, d) ==
    LET g == c + (d \div IdxSize)
        l == b + (g \div 2)
    IN  [pos |-> a + (l \div LenSize), len |-> l % LenSize,
         gene |-> g % 2, idx |-> d % IdxSize]

\* code >> 48
Pos(code) == code.pos
\* code >> 31 & 131071
LenField(code) == code.len
\* code & (1 << 30)
IsGene(code) == code.gene = 1
\* code & (1 << 31)
Bit31(code) == code.len % 2 = 1
\* code & (1 << 30) - 1
Idx(code) == code.idx
\* code >> 31
Shr31(code) == code.pos * LenSize + code.len

\* mutant of CodeLess: at one position the starts before the ends
CodeLessStartFirst(a, b) ==
    \/ a.pos < b.pos
    \/ a.pos = b.pos /\ a.len > b.len
    \/ a.pos = b.pos /\ a.len = b.len /\ a.gene < b.gene
    \/ a.pos = b.pos /\ a.len = b.len /\ a.gene = b.gene /\ a.idx < b.idx

\* a < b as integers
CodeLess(a, b) ==
    \/ a.pos < b.pos
    \/ a.pos = b.pos /\ a.len < b.len
    \/ a.pos = b.pos /\ a.len = b.len /\ a.gene < b.gene
    \/ a.pos = b.pos /\ a.len = b.len /\ a.gene = b.gene /\ a.idx < b.idx

\* the sorted s with c put after the codes that are not greater
Insert(s, c) ==
    LET p == Cardinality({m \in 1..Len(s) : ~CodeLess(c, s[m])})
    IN  SubSeq(s, 1, p) \o <<c>> \o SubSeq(s, p + 1, Len(s))

\* sorted(s), and list.sort()
RECURSIVE Sorted(_)
Sorted(s) ==
    IF s = <<>> THEN <<>>
    ELSE Insert(Sorted(SubSeq(s, 1, Len(s) - 1)), s[Len(s)])

Max(a, b) == IF a >= b THEN a ELSE b
Min(a, b) == IF a <= b THEN a ELSE b

-----------------------------------------------------------------------------
(* Python dicts, which keep insertion order: sequences of <<key, value>>. *)

DictHas(d, key) == \E j \in 1..Len(d) : d[j][1] = key
DictGet(d, key) == d[CHOOSE j \in 1..Len(d) : d[j][1] = key][2]
DictSet(d, key, val) ==
    IF DictHas(d, key)
    THEN [j \in 1..Len(d) |-> IF d[j][1] = key THEN <<key, val>> ELSE d[j]]
    ELSE Append(d, <<key, val>>)
DictDel(d, key) == SelectSeq(d, LAMBDA e : e[1] # key)
DictKeys(d) == [j \in 1..Len(d) |-> d[j][1]]
DictValues(d) == [j \in 1..Len(d) |-> d[j][2]]

\* the elements of a sequence
Range(s) == {s[j] : j \in 1..Len(s)}

-----------------------------------------------------------------------------
(* match_read_gene: one walk over a sorted queue of genes and reads.  The  *)
(* state of the walk is [genes, reads, out, err]: the two caches, the      *)
(* pairs yielded so far, and whether a pop has raised KeyError.            *)

NoWalk == [genes |-> <<>>, reads |-> <<>>, out |-> <<>>, err |-> FALSE]

\* mutant of ReadCache: the effective length cached as it is
ReadCacheWhole(code) == Shr31(code)

\* what a beginning read caches: (code >> 31) - 1
ReadCache(code) == Shr31(code) - 1

\* (code >> 48) - max(gloc, rloc >> 17) >= rloc & 131071
Overlaps(code, gloc, rloc) ==
    Pos(code) - Max(gloc, rloc \div LenSize) >= rloc % LenSize

\* when a gene begins: add it to cache
GeneBegins(st, code) ==
    [st EXCEPT !.genes = DictSet(@, Idx(code), Pos(code))]

\* when a gene ends: find gene start, check cached reads for matches
GeneEnds(st, code) ==
    IF ~DictHas(st.genes, Idx(code)) THEN [st EXCEPT !.err = TRUE]
    ELSE LET gloc == DictGet(st.genes, Idx(code))
             hits == SelectSeq(st.reads,
                               LAMBDA e : Overlaps(code, gloc, e[2]))
         IN  [st EXCEPT !.genes = DictDel(@, Idx(code)),
                        !.out = @ \o [j \in 1..Len(hits) |->
                                        <<hits[j][1], Idx(code)>>]]

\* when a read begins: add it and its effective length to cache
ReadBegins(st, code) ==
    [st EXCEPT !.reads = DictSet(@, Idx(code), ReadCache(code))]

\* mutant of ReadEnds: the read looked up and left in the cache
ReadEndsKeeps(st, code) ==
    IF ~DictHas(st.reads, Idx(code)) THEN [st EXCEPT !.err = TRUE]
    ELSE LET rloc == DictGet(st.reads, Idx(code))
             hits == SelectSeq(st.genes,
                               LAMBDA e : Overlaps(code, e[2], rloc))
         IN  [st EXCEPT !.out = @ \o [j \in 1..Len(hits) |->
                                        <<Idx(code), hits[j][1]>>]]

\* when a read ends: find read start and effective length, check cached genes
ReadEnds(st, code) ==
    IF ~DictHas(st.reads, Idx(code)) THEN [st EXCEPT !.err = TRUE]
    ELSE LET rloc == DictGet(st.reads, Idx(code))
             hits == SelectSeq(st.genes,
                               LAMBDA e : Overlaps(code, e[2], rloc))
         IN  [st EXCEPT !.reads = DictDel(@, Idx(code)),
                        !.out = @ \o [j \in 1..Len(hits) |->
                                        <<Idx(code), hits[j][1]>>]]

\* the body of "for code in queue"
MatchStep(st, code) ==
    IF IsGene(code)
    THEN IF Bit31(code) THEN GeneBegins(st, code) ELSE GeneEnds(st, code)
    ELSE IF LenField(code) # 0 THEN ReadBegins(st, code)
         ELSE ReadEnds(st, code)

RECURSIVE MatchWalk(_, _, _)
MatchWalk(st, q, j) ==
    IF j > Len(q) \/ st.err THEN st
    ELSE MatchWalk(MatchStep(st, q[j]), q, j + 1)

\* match_read_gene(queue): the pairs yielded, and whether it raised
MatchReadGene(q) ==
    LET st == MatchWalk(NoWalk, q, 1) IN [out |-> st.out, err |-> st.err]

-----------------------------------------------------------------------------
(* match_read_gene_naive: nested iteration over genes and reads. *)

\* pre-calculate id, start, end, effective length of reads
NaiveReads(rq) ==
    [j \in 1..(Len(rq) \div 2) |->
        [rid |-> Idx(rq[2 * j - 1]), rs |-> Pos(rq[2 * j - 1]),
         re |-> Pos(rq[2 * j]), L |-> LenField(rq[2 * j - 1])]]

\* mutant of NaiveOverlaps: the end of the read forgotten
NaiveOverlapsToGeneEnd(gs, ge, r) == ge - Max(gs, r.rs) >= r.L

\* min(ge, re) - max(gs, rs) >= L
NaiveOverlaps(gs, ge, r) == Min(ge, r.re) - Max(gs, r.rs) >= r.L

\* the body of "for code in geneque"
NaiveStep(st, code, rds) ==
    IF Bit31(code)
    THEN [st EXCEPT !.genes = DictSet(@, Idx(code), Pos(code))]
    ELSE IF ~DictHas(st.genes, Idx(code)) THEN [st EXCEPT !.err = TRUE]
         ELSE LET gid == Idx(code)
                  gs == DictGet(st.genes, gid)
                  ge == Pos(code)
                  hits == SelectSeq(rds, LAMBDA r : NaiveOverlaps(gs, ge, r))
              IN  [st EXCEPT !.genes = DictDel(@, gid),
                             !.out = @ \o [j \in 1..Len(hits) |->
                                             <<hits[j].rid, gid>>]]

RECURSIVE NaiveWalk(_, _, _, _)
NaiveWalk(st, gq, j, rds) ==
    IF j > Len(gq) \/ st.err THEN st
    ELSE NaiveWalk(NaiveStep(st, gq[j], rds), gq, j + 1, rds)

\* match_read_gene_naive(geneque, readque)
MatchReadGeneNaive(gq, rq) ==
    LET st == NaiveWalk(NoWalk, gq, 1, NaiveReads(rq))
    IN  [out |-> st.out, err |-> st.err]

-----------------------------------------------------------------------------
(* match_read_gene_g1: the walk of match_read_gene with a scalar gene      *)
(* cache.  The state of the walk is [gene, reads, out, err].               *)

\* "gene = None"
NoGene == [held |-> FALSE, code |-> Code(0, 0, 0, 0)]

NoWalkG1 == [gene |-> NoGene, reads |-> <<>>, out |-> <<>>, err |-> FALSE]

\* "gloc, gene = gene >> 48, None", which raises when gene is None, and the
\* check of the cached reads
G1GeneEnds(st, code) ==
    IF ~st.gene.held THEN [st EXCEPT !.err = TRUE]
    ELSE LET gloc == Pos(st.gene.code)
             hits == SelectSeq(st.reads,
                               LAMBDA e : Overlaps(code, gloc, e[2]))
         IN  [st EXCEPT !.gene = NoGene,
                        !.out = @ \o [j \in 1..Len(hits) |->
                                        <<hits[j][1], Idx(code)>>]]

\* mutant of G1ReadEnds: the cached gene not checked when a read ends
G1ReadEndsBlind(st, code) ==
    IF ~DictHas(st.reads, Idx(code)) THEN [st EXCEPT !.err = TRUE]
    ELSE [st EXCEPT !.reads = DictDel(@, Idx(code))]

\* "rloc = reads_pop(...)" and "if gene and ...: yield"
G1ReadEnds(st, code) ==
    IF ~DictHas(st.reads, Idx(code)) THEN [st EXCEPT !.err = TRUE]
    ELSE LET rloc == DictGet(st.reads, Idx(code))
         IN  [st EXCEPT
                !.reads = DictDel(@, Idx(code)),
                !.out = IF /\ st.gene.held
                           /\ Overlaps(code, Pos(st.gene.code), rloc)
                        THEN Append(@, <<Idx(code), Idx(st.gene.code)>>)
                        ELSE @]

\* the body of "for code in queue"
G1Step(st, code) ==
    IF IsGene(code)
    THEN IF Bit31(code)
         THEN [st EXCEPT !.gene = [held |-> TRUE, code |-> code]]
         ELSE G1GeneEnds(st, code)
    ELSE IF LenField(code) # 0 THEN ReadBegins(st, code)
         ELSE G1ReadEnds(st, code)

RECURSIVE G1Walk(_, _, _)
G1Walk(st, q, j) ==
    IF j > Len(q) \/ st.err THEN st
    ELSE G1Walk(G1Step(st, q[j]), q, j + 1)

\* match_read_gene_g1(queue): the pairs yielded, and whether it raised
MatchReadGeneG1(q) ==
    LET st == G1Walk(NoWalkG1, q, 1) IN [out |-> st.out, err |-> st.err]

-----------------------------------------------------------------------------
(* load_gene_coords, from a nucleotide's gene records on: the packed codes *)
(* of its genes and their identifiers.                                     *)

\* queue_extend(((beg << 48) + (3 << 30) + idx, (end << 48) + (1 << 30) + idx))
GenePair(beg, end, idx) == <<Code(beg, 0, 3, idx), Code(end, 0, 1, idx)>>

RECURSIVE GeneCodes(_)
GeneCodes(recs) ==
    IF recs = <<>> THEN <<>>
    ELSE LET r == recs[Len(recs)]
         IN  GeneCodes(SubSeq(recs, 1, Len(recs) - 1))
             \o GenePair(Min(r.beg, r.end), Max(r.beg, r.end), Len(recs) - 1)

\* coords[nucl] of load_gene_coords(fh, sort=True)
GeneQueue(recs) == Sorted(GeneCodes(recs))

\* idmap[nucl]
GeneIds(recs) == [j \in 1..Len(recs) |-> recs[j].id]

-----------------------------------------------------------------------------
(* ordinal_mapper. *)

\* this = None
None == "<None>"

\* a line the parser returns a tuple for, and one it does not
Aln(q, s, len, b, e) ==
    [ok |-> TRUE, query |-> q, subject |-> s, length |-> len,
     beg |-> b, end |-> e]
Unparsed ==
    [ok |-> FALSE, query |-> "", subject |-> "", length |-> 0,
     beg |-> 0, end |-> 0]

\* -int(-length * th // 1), the ceiling of length * th
EffLen(length, t) == -((-(length * t.num)) \div t.den)

\* ((beg << 48) + (L << 31) + idx, (end << 48) + idx)
ReadPair(beg, end, L, idx) == <<Code(beg, L, 0, idx), Code(end, 0, 0, idx)>>

\* mutant of LocExtend: the list of the subject replaced, not extended
LocExtendReplaces(lm, subject, pair) == DictSet(lm, subject, pair)

\* locmap[subject].extend(pair), locmap being a defaultdict(list)
LocExtend(lm, subject, pair) ==
    DictSet(lm, subject,
            (IF DictHas(lm, subject) THEN DictGet(lm, subject) ELSE <<>>)
            \o pair)

\* mutants of ChunkEnds: the query test forgotten, the target test forgotten
ChunkEndsAtTarget(query, last, idx, tgt) == idx >= tgt
ChunkEndsAtQuery(query, last, idx, tgt) == query # last

\* "if query != this and i >= target"
ChunkEnds(query, last, idx, tgt) == query # last /\ idx >= tgt

\* "target = i + n"
NextTarget(idx, size) == idx + size

\* rid_append(query)
RidsAppend(rd, line) == Append(rd, line.query)

\* mutant of LocAppend: the index taken after the append of the read id
LocAppendAhead(lm, rd, line, t) ==
    LocExtend(lm, line.subject,
              ReadPair(line.beg, line.end, EffLen(line.length, t),
                       Len(rd) + 1))

\* "idx = len(rids)" and "locmap[subject].extend(...)"
LocAppend(lm, rd, line, t) ==
    LocExtend(lm, line.subject,
              ReadPair(line.beg, line.end, EffLen(line.length, t), Len(rd)))

\* mutant of UseOrdinal: another cutoff
UseOrdinalOver16(locs) == Len(locs) > 16

\* "if len(locs) > 8"
UseOrdinal(locs) == Len(locs) > NaiveCutoff

\* mutant of Pfx: the separator forgotten
PfxBare(nucl, pre) == IF pre THEN nucl ELSE ""

\* pfx = nucl + '_' if prefix else ''
Pfx(nucl, pre) == IF pre THEN nucl \o "_" ELSE ""

\* mutant of ResAdd: the gene set replaced, not added to
ResPut(res, rid, gene) == DictSet(res, rid, {gene})

\* res[rid].add(gene), res being a defaultdict(set)
ResAdd(res, rid, gene) ==
    DictSet(res, rid,
            (IF DictHas(res, rid) THEN DictGet(res, rid) ELSE {})
            \cup {gene})

\* "for read, gene in ...: res[rids[read]].add(pfx + gids[gene])"
RECURSIVE AddPairs(_, _, _, _, _)
AddPairs(res, pairs, pfx, gids, rd) ==
    IF pairs = <<>> THEN res
    ELSE AddPairs(ResAdd(res, rd[pairs[1][1] + 1],
                         pfx \o gids[pairs[1][2] + 1]),
                  Tail(pairs), pfx, gids, rd)

\* whether coords[nucl] is there
Annotated(nucl) == nucl \in DOMAIN coords

\* mutant of NotAnnotated: the KeyError not caught
NotAnnotatedRaises(acc) == [acc EXCEPT !.err = TRUE]

\* "try: glocs = coords[nucl] except KeyError: continue"
NotAnnotated(acc) == acc

\* the body of "for nucl, locs in locmap.items()"
FlushNucl(acc, nucl, locs, rd) ==
    IF acc.err THEN acc
    ELSE IF ~Annotated(nucl) THEN NotAnnotated(acc)
    ELSE LET glocs == coords[nucl]
             gids == idmap[nucl]
             ord == UseOrdinal(locs)
             m == IF ord THEN MatchReadGene(Sorted(glocs \o locs))
                         ELSE MatchReadGeneNaive(glocs, locs)
         IN  [res |-> AddPairs(acc.res, m.out, Pfx(nucl, prefix), gids, rd),
              algo |-> DictSet(acc.algo, nucl,
                               IF ord THEN "ordinal" ELSE "naive"),
              err |-> m.err]

RECURSIVE FlushWalk(_, _, _, _)
FlushWalk(acc, lm, j, rd) ==
    IF j > Len(lm) THEN acc
    ELSE FlushWalk(FlushNucl(acc, lm[j][1], lm[j][2], rd), lm, j + 1, rd)

\* mutant of CoordsLookedUp: coords as a defaultdict(list), which takes in
\* the nucleotide looked up
CoordsLookedUpDefault(c, nucl) ==
    [x \in DOMAIN c \cup {nucl} |-> IF x \in DOMAIN c THEN c[x] ELSE <<>>]

\* coords after "glocs = coords[nucl]": coords is a dict, the lookup gives
\* the list or raises KeyError, and the merge is a new list, sorted(chain(
\* glocs, locs))
CoordsLookedUp(c, nucl) == c

\* coords after the lookups of "for nucl, locs in locmap.items()"
RECURSIVE CoordsAfter(_, _, _)
CoordsAfter(c, lm, j) ==
    IF j > Len(lm) THEN c
    ELSE CoordsAfter(CoordsLookedUp(c, lm[j][1]), lm, j + 1)

\* "nums = [str(len(x) / 2) for x in locmap.values()]", the line that flush
\* prints to stats.txt before it matches
StatsLine(lm) == [j \in 1..Len(lm) |-> Len(lm[j][2]) \div 2]

\* flush(): the master read-to-gene(s) map, the algorithm run per
\* nucleotide, whether a matching function raised, the line printed to
\* stats.txt, and coords as the lookups leave it
Flush(rd, lm) ==
    LET w == FlushWalk([res |-> <<>>, algo |-> <<>>, err |-> FALSE], lm, 1, rd)
    IN  [res |-> w.res, algo |-> w.algo, err |-> w.err,
         stats |-> StatsLine(lm), coords |-> CoordsAfter(coords, lm, 1)]

\* "return res.keys(), res.values()"
Chunk(res) == [queries |-> DictKeys(res), subjects |-> DictValues(res)]

-----------------------------------------------------------------------------
(* match_read_gene_dummy: the walk over (loc, is_start, is_gene, idx)      *)
(* tuples, with the alignment lengths of the reads and the threshold.      *)

\* the tuple of a packed code
TupleOf(code) ==
    [loc |-> Pos(code), is_start |-> LenField(code) # 0,
     is_gene |-> IsGene(code), idx |-> Idx(code)]

\* False < True
BoolLess(a, b) == ~a /\ b

\* a < b as tuples
TupleLess(a, b) ==
    \/ a.loc < b.loc
    \/ a.loc = b.loc /\ BoolLess(a.is_start, b.is_start)
    \/ a.loc = b.loc /\ a.is_start = b.is_start
          /\ BoolLess(a.is_gene, b.is_gene)
    \/ a.loc = b.loc /\ a.is_start = b.is_start /\ a.is_gene = b.is_gene
          /\ a.idx < b.idx

\* sorted(), of the tuples of the codes s
RECURSIVE TupleSorted(_)
TupleSorted(s) ==
    IF s = <<>> THEN <<>>
    ELSE LET rest == TupleSorted(SubSeq(s, 1, Len(s) - 1))
             c == TupleOf(s[Len(s)])
             p == Cardinality({m \in 1..Len(rest) : ~TupleLess(c, rest[m])})
         IN  SubSeq(rest, 1, p) \o <<c>> \o SubSeq(rest, p + 1, Len(rest))

\* loc - max(gloc, rloc) + 1 >= lens[rid] * th
DummyOverlaps(loc, gloc, rloc, length, t) ==
    (loc - Max(gloc, rloc) + 1) * t.den >= length * t.num

\* the body of "for loc, is_start, is_gene, idx in queue"
DummyStep(st, e, ls, t) ==
    IF e.is_gene
    THEN IF e.is_start
         THEN [st EXCEPT !.genes = DictSet(@, e.idx, e.loc)]
         ELSE IF ~DictHas(st.genes, e.idx) THEN [st EXCEPT !.err = TRUE]
         ELSE LET gloc == DictGet(st.genes, e.idx)
                  hits == SelectSeq(st.reads,
                              LAMBDA r : DummyOverlaps(e.loc, gloc, r[2],
                                                       ls[r[1] + 1], t))
              IN  [st EXCEPT !.genes = DictDel(@, e.idx),
                             !.out = @ \o [j \in 1..Len(hits) |->
                                             <<hits[j][1], e.idx>>]]
    ELSE IF e.is_start
         THEN [st EXCEPT !.reads = DictSet(@, e.idx, e.loc)]
         ELSE IF ~DictHas(st.reads, e.idx) THEN [st EXCEPT !.err = TRUE]
         ELSE LET rloc == DictGet(st.reads, e.idx)
                  hits == SelectSeq(st.genes,
                              LAMBDA g : DummyOverlaps(e.loc, g[2], rloc,
                                                       ls[e.idx + 1], t))
              IN  [st EXCEPT !.reads = DictDel(@, e.idx),
                             !.out = @ \o [j \in 1..Len(hits) |->
                                             <<e.idx, hits[j][1]>>]]

RECURSIVE DummyWalk(_, _, _, _, _)
DummyWalk(st, q, j, ls, t) ==
    IF j > Len(q) \/ st.err THEN st
    ELSE DummyWalk(DummyStep(st, q[j], ls, t), q, j + 1, ls, t)

\* match_read_gene_dummy(queue, lens, th): the pairs yielded, and whether
\* it raised; lens[idx] is ls[idx + 1]
MatchReadGeneDummy(q, ls, t) ==
    LET st == DummyWalk(NoWalk, q, 1, ls, t)
    IN  [out |-> st.out, err |-> st.err]

\* the thresholds the dummy is run with
Thresholds ==
    {[num |-> 1, den |-> 2], [num |-> 4, den |-> 5], [num |-> 1, den |-> 1]}

\* the alignment lengths whose effective length at threshold t is L
LengthsFor(L, t) == {length \in 1..(L * t.den) : EffLen(length, t) = L}

\* the least such length for every read of a read queue, or the greatest
Lens(rq, t, least) ==
    [j \in 1..(Len(rq) \div 2) |->
        LET ok == LengthsFor(LenField(rq[2 * j - 1]), t)
        IN  IF least THEN CHOOSE x \in ok : \A y \in ok : x <= y
            ELSE CHOOSE x \in ok : \A y \in ok : x >= y]

-----------------------------------------------------------------------------
(* The inputs of ordinal_mapper: the gene index, and the lines of the file. *)

\* the gene coordinates file: N1 with three genes, N2 with a gene that
\* shares its id with one of N1; N3 has no gene annotated
GeneTable ==
    [N1 |-> <<[id |-> "g1", beg |-> 10, end |-> 50],
              [id |-> "g2", beg |-> 40, end |-> 90],
              [id |-> "g3", beg |-> 100, end |-> 150]>>,
     N2 |-> <<[id |-> "g1", beg |-> 100, end |-> 200]>>]

\* alignments to N1: r1 lies within g1; r2 lies within g2 and overlaps g1
\* by one position less than its effective length
Common == {Aln("r1", "N1", 20, 20, 39), Aln("r2", "N1", 20, 41, 60)}

\* an alignment to N2, one to a nucleotide without genes, a line the
\* parser rejects, and an alignment without length
Other == {Aln("r1", "N2", 50, 110, 159), Aln("r2", "N3", 50, 110, 159),
          Unparsed, Aln("r2", "N1", 0, 20, 39)}

\* three reads on N1, over g1, g2 and g3
ThreeReads ==
    <<Aln("r1", "N1", 20, 20, 39), Aln("r2", "N1", 30, 45, 74),
      Aln("r3", "N1", 20, 110, 129)>>

\* an alignment so long that its effective length takes more than 17 bits
LongRead == <<Aln("r1", "N1", 300000, 20, 39)>>

\* an alignment within g1 that the parser gives with beg > end
Reversed == <<Aln("r1", "N1", 20, 39, 20)>>

\* the files that are run besides the drawn ones
Scenarios == {ThreeReads, LongRead, Reversed}

\* the files the mapper is run on: up to MaxLen lines of which at most
\* MaxOther are not alignments to N1, and the scenarios
Streams(s) ==
    \/ /\ Len(s) <= MaxLen
       /\ \A j \in DOMAIN s : s[j] \in Common \cup Other
       /\ Cardinality({j \in DOMAIN s : s[j] \in Other}) <= MaxOther
    \/ \E sc \in Scenarios :
          Len(s) <= Len(sc) /\ s = SubSeq(sc, 1, Len(s))

\* the lines the file handle can give next, after those it has given
NextLines ==
    {line \in Common \cup Other \cup UNION {Range(sc) : sc \in Scenarios} :
        Streams(Append(stream, line))}

IdleWalk ==
    /\ geneque = <<>> /\ readque = <<>> /\ queue = <<>> /\ k = 0
    /\ genes = <<>> /\ reads = <<>> /\ yielded = <<>>
    /\ naive = [out |-> <<>>, err |-> FALSE]
    /\ g1 = [out |-> <<>>, err |-> FALSE]
    /\ dummy = <<>>
    /\ mpc = "idle"

\* "gids = None", "queue_extend = None"
Unbound == [bound |-> FALSE, name |-> <<>>]

IdleLoad ==
    /\ fh = <<>> /\ sort = FALSE /\ lcoords = <<>> /\ lidmap = <<>>
    /\ lnucl = Unbound /\ isdup = FALSE /\ used = {} /\ lens = <<>>
    /\ lerr = "" /\ lpc = "idle"

IdleIds == idfh = <<>> /\ idres = <<>> /\ ierr = "" /\ ipc = "idle"

Init ==
    /\ stream = <<>>
    /\ n \in 1..MaxN \cup {DefaultN}
    /\ th = [num |-> 1, den |-> 2]
    /\ prefix \in BOOLEAN
    /\ coords = [c \in DOMAIN GeneTable |-> GeneQueue(GeneTable[c])]
    /\ idmap = [c \in DOMAIN GeneTable |-> GeneIds(GeneTable[c])]
    /\ i = 0
    /\ this = None
    /\ target = n
    /\ rids = <<>>
    /\ locmap = <<>>
    /\ out = <<>>
    /\ stats = <<>>
    /\ algo = <<>>
    /\ first = 0
    /\ pc = "loop"
    /\ IdleWalk
    /\ IdleLoad
    /\ IdleIds

-----------------------------------------------------------------------------
(* The steps of ordinal_mapper. *)

\* the line "for i, line in enumerate(...)" is at, once it is read
Line == stream[i + 1]

\* "except (TypeError, IndexError): continue"
SkipUnparsed ==
    /\ pc = "loop"
    /\ \E line \in NextLines :
        /\ ~line.ok
        /\ stream' = Append(stream, line)
    /\ i' = i + 1
    /\ UNCHANGED <<n, th, prefix, coords, idmap, this, target, rids, locmap,
                   out, stats, algo, first, pc, qvars, lvars, ivars>>

\* "if not length: continue"
SkipNoLength ==
    /\ pc = "loop"
    /\ \E line \in NextLines :
        /\ line.ok /\ line.length = 0
        /\ stream' = Append(stream, line)
    /\ i' = i + 1
    /\ UNCHANGED <<n, th, prefix, coords, idmap, this, target, rids, locmap,
                   out, stats, algo, first, pc, qvars, lvars, ivars>>

\* a flush that returns is yielded, one that raises ends the generator
Yield(f, to) ==
    /\ stats' = Append(stats, f.stats)
    /\ algo' = f.algo
    /\ out' = IF f.err THEN out ELSE Append(out, Chunk(f.res))
    /\ coords' = f.coords
    /\ pc' = IF f.err THEN "crashed" ELSE to

\* "when query Id changes and chunk limits has been reached": yield flush()
MidFlush ==
    /\ pc = "loop"
    /\ \E line \in NextLines :
        /\ line.ok /\ line.length # 0
        /\ ChunkEnds(line.query, this, i, target)
        /\ stream' = Append(stream, line)
    /\ Yield(Flush(rids, locmap), "yielded")
    /\ UNCHANGED <<n, th, prefix, idmap, i, this, target, rids, locmap,
                   first, qvars, lvars, ivars>>

\* resumed after the yield: "re-initiate read Ids, length map and location
\* map", "next target line number"
Resume ==
    /\ pc = "yielded"
    /\ rids' = <<>>
    /\ locmap' = <<>>
    /\ target' = NextTarget(i, n)
    /\ first' = i
    /\ pc' = "append"
    /\ UNCHANGED <<stream, n, th, prefix, coords, idmap, i, this, out, stats,
                   algo, qvars, lvars, ivars>>

\* the lines that reach "append read Id, alignment length and location":
\* the one the chunk was flushed at, or the next one when it ends no chunk
AtAppend ==
    IF pc = "append"
    THEN {Line}
    ELSE {line \in NextLines :
            /\ pc = "loop"
            /\ line.ok /\ line.length # 0
            /\ ~ChunkEnds(line.query, this, i, target)}

\* "append read Id, alignment length and location"
Ingest ==
    /\ \E line \in AtAppend :
        /\ stream' = IF pc = "append" THEN stream ELSE Append(stream, line)
        /\ rids' = RidsAppend(rids, line)
        /\ locmap' = LocAppend(locmap, rids, line, th)
        /\ this' = line.query
    /\ i' = i + 1
    /\ pc' = "loop"
    /\ UNCHANGED <<n, th, prefix, coords, idmap, target, out, stats, algo,
                   first, qvars, lvars, ivars>>

\* the file handle is exhausted: "final flush"
FinalFlush ==
    /\ pc = "loop"
    /\ Yield(Flush(rids, locmap), "done")
    /\ UNCHANGED <<stream, n, th, prefix, idmap, i, this, target, rids,
                   locmap, first, qvars, lvars, ivars>>

Next ==
    \/ SkipUnparsed
    \/ SkipNoLength
    \/ MidFlush
    \/ Resume
    \/ Ingest
    \/ FinalFlush

Spec == Init /\ [][Next]_vars

-----------------------------------------------------------------------------
(* The matching functions on their own: Init draws the genes and the reads *)
(* of one nucleotide, RunNaive applies match_read_gene_naive to the two    *)
(* queues, and the other actions walk match_read_gene over their sorted    *)
(* merge, one code per step.                                               *)

\* the intervals [beg, end] with 1 <= beg <= end <= MaxPos
Intervals == {iv \in (1..MaxPos) \X (1..MaxPos) : iv[1] <= iv[2]}

\* genes in the order of a coordinates file sorted by position, as
\* load_gene_coords numbers them
GeneLists ==
    {gl \in UNION {[1..m -> Intervals] : m \in 0..MaxGenes} :
        \A j \in 1..(Len(gl) - 1) :
            \/ gl[j][1] < gl[j + 1][1]
            \/ gl[j][1] = gl[j + 1][1] /\ gl[j][2] <= gl[j + 1][2]}

\* reads in any order with an effective length L >= 1, as ordinal_mapper
\* numbers them; no overlap on 1..MaxPos is longer than MaxPos - 1
ReadLists ==
    UNION {[1..m -> Intervals \X (1..(MaxPos - 1))] : m \in 0..MaxReads}

GeneRecs(gl) ==
    [j \in 1..Len(gl) |-> [id |-> "g", beg |-> gl[j][1], end |-> gl[j][2]]]

RECURSIVE ReadCodes(_)
ReadCodes(rl) ==
    IF rl = <<>> THEN <<>>
    ELSE LET r == rl[Len(rl)]
         IN  ReadCodes(SubSeq(rl, 1, Len(rl) - 1))
             \o ReadPair(r[1][1], r[1][2], r[2], Len(rl) - 1)

IdleMapper ==
    /\ stream = <<>> /\ n = 1 /\ th = [num |-> 1, den |-> 1]
    /\ prefix = FALSE /\ coords = <<>> /\ idmap = <<>> /\ i = 0
    /\ this = None /\ target = 1 /\ rids = <<>> /\ locmap = <<>>
    /\ out = <<>> /\ stats = <<>> /\ algo = <<>> /\ first = 0 /\ pc = "idle"

InitMatch ==
    /\ \E gl \in GeneLists, rl \in ReadLists :
          /\ geneque = GeneQueue(GeneRecs(gl))
          /\ readque = ReadCodes(rl)
          /\ queue = Sorted(GeneQueue(GeneRecs(gl)) \o ReadCodes(rl))
    /\ k = 0
    /\ genes = <<>>
    /\ reads = <<>>
    /\ yielded = <<>>
    /\ naive = [out |-> <<>>, err |-> FALSE]
    /\ g1 = [out |-> <<>>, err |-> FALSE]
    /\ dummy = <<>>
    /\ mpc = "naive"
    /\ IdleMapper
    /\ IdleLoad
    /\ IdleIds

\* match_read_gene_naive(geneque, readque)
RunNaive ==
    /\ mpc = "naive"
    /\ naive' = MatchReadGeneNaive(geneque, readque)
    /\ mpc' = "g1"
    /\ UNCHANGED <<mvars, lvars, ivars, geneque, readque, queue, k, genes,
                   reads, yielded, g1, dummy>>

\* match_read_gene_g1(queue)
RunG1 ==
    /\ mpc = "g1"
    /\ g1' = MatchReadGeneG1(queue)
    /\ mpc' = "walk"
    /\ UNCHANGED <<mvars, lvars, ivars, geneque, readque, queue, k, genes,
                   reads, yielded, naive, dummy>>


\* one turn of "for code in queue" of match_read_gene
Walk == [genes |-> genes, reads |-> reads, out |-> yielded, err |-> FALSE]

Turn(st) ==
    /\ genes' = st.genes
    /\ reads' = st.reads
    /\ yielded' = st.out
    /\ k' = k + 1
    /\ mpc' = IF st.err THEN "crashed" ELSE "walk"
    /\ UNCHANGED <<mvars, lvars, ivars, geneque, readque, queue, naive, g1,
                   dummy>>

AtCode == mpc = "walk" /\ k < Len(queue)

GeneStart ==
    /\ AtCode /\ IsGene(queue[k + 1]) /\ Bit31(queue[k + 1])
    /\ Turn(GeneBegins(Walk, queue[k + 1]))

GeneEnd ==
    /\ AtCode /\ IsGene(queue[k + 1]) /\ ~Bit31(queue[k + 1])
    /\ Turn(GeneEnds(Walk, queue[k + 1]))

ReadStart ==
    /\ AtCode /\ ~IsGene(queue[k + 1]) /\ LenField(queue[k + 1]) # 0
    /\ Turn(ReadBegins(Walk, queue[k + 1]))

ReadEnd ==
    /\ AtCode /\ ~IsGene(queue[k + 1]) /\ LenField(queue[k + 1]) = 0
    /\ Turn(ReadEnds(Walk, queue[k + 1]))

\* the queue is exhausted: the generator returns
Exhausted ==
    /\ mpc = "walk" /\ k = Len(queue)
    /\ mpc' = "done"
    /\ UNCHANGED <<mvars, lvars, ivars, geneque, readque, queue, k, genes,
                   reads, yielded, naive, g1, dummy>>

\* once match_read_gene has returned or raised: match_read_gene_dummy on
\* the sorted tuples of the same genes and reads, for each threshold and for
\* the least and the greatest alignment lengths that give the reads their
\* effective lengths
RunDummy ==
    /\ mpc \in {"done", "crashed"} /\ dummy = <<>>
    /\ dummy' = [c \in Thresholds \X BOOLEAN |->
                    MatchReadGeneDummy(TupleSorted(geneque \o readque),
                                       Lens(readque, c[1], c[2]), c[1])]
    /\ UNCHANGED <<mvars, lvars, ivars, geneque, readque, queue, k, genes,
                   reads, yielded, naive, g1, mpc>>

NextMatch ==
    \/ RunNaive
    \/ RunG1
    \/ GeneStart
    \/ GeneEnd
    \/ ReadStart
    \/ ReadEnd
    \/ Exhausted
    \/ RunDummy

SpecMatch == InitMatch /\ [][NextMatch]_vars

-----------------------------------------------------------------------------
(* The genes and reads of the drawn queues, read back from the codes. *)

QGenes ==
    {[idx |-> b.idx, beg |-> b.pos, end |-> e.pos] :
        <<b, e>> \in {p \in Range(geneque) \X Range(geneque) :
                        p[1].idx = p[2].idx /\ p[1].len = 1 /\ p[2].len = 0}}

QReads ==
    {[idx |-> readque[2 * j - 1].idx, beg |-> readque[2 * j - 1].pos,
      end |-> readque[2 * j].pos, L |-> readque[2 * j - 1].len] :
        j \in 1..(Len(readque) \div 2)}

\* min(r_end, g_end) - max(r_start, g_start)
Shared(r, g) == Min(r.end, g.end) - Max(r.beg, g.beg)

\* C1: when match_read_gene has walked the sorted merge of the gene and read
\* events of one nucleotide, the pairs it yielded are exactly the (read,
\* gene) pairs with min(r_end, g_end) - max(r_start, g_start) >= L, with no
\* + 1 in the comparison.
C1_SweepYieldsOverlapRule ==
    mpc = "done" =>
        Range(yielded) = {<<r.idx, g.idx>> : <<r, g>> \in
                            {p \in QReads \X QGenes :
                                Shared(p[1], p[2]) >= p[1].L}}

\* C2: for sorted gene events and paired read events, the set of pairs
\* match_read_gene yields over the sorted merged queue equals the set
\* match_read_gene_naive yields over the gene queue and the read queue.
C2_SweepEqualsNaive ==
    mpc = "done" /\ ~naive.err => Range(yielded) = Range(naive.out)

-----------------------------------------------------------------------------
(* What the claims about ordinal_mapper speak of. *)

\* the generator is suspended at a yield: flush() has just returned and
\* rids and locmap still hold the chunk it matched
Flushed == pc \in {"yielded", "done"}

\* the chunk yielded last
Last == out[Len(out)]

\* the (read id, gene id) pairs of a chunk
ChunkPairs(c) ==
    UNION {{<<c.queries[j], g>> : g \in c.subjects[j]} :
             j \in 1..Len(c.queries)}

\* the union of the pairs of all chunks yielded so far
OutPairs == UNION {ChunkPairs(out[c]) : c \in 1..Len(out)}

\* whether the loop skips a line
Skipped(line) == IF line.ok THEN line.length = 0 ELSE TRUE

\* rids and locmap after the lines s, were no flush to come between them
RECURSIVE OneChunk(_)
OneChunk(s) ==
    IF s = <<>> THEN [rd |-> <<>>, lm |-> <<>>]
    ELSE LET c == OneChunk(SubSeq(s, 1, Len(s) - 1))
             line == s[Len(s)]
         IN  IF Skipped(line) THEN c
             ELSE [rd |-> RidsAppend(c.rd, line),
                   lm |-> LocAppend(c.lm, c.rd, line, th)]

\* C3: the union over all chunks of the (read id, gene id) pairs is that of
\* the single chunk which a chunk size n larger than the whole file gives,
\* whatever the chunk size n >= 1.
C3_ChunkSizeTransparent ==
    pc = "done" =>
        OutPairs = ChunkPairs(Chunk(Flush(OneChunk(stream).rd,
                                          OneChunk(stream).lm).res))

\* C4: a mid-file flush comes only right before the ingestion of a record
\* whose query differs from that of the record ingested before it: between
\* the flush and the append the loop stays at that record, and the last read
\* of the flushed chunk has another query, so a run of records of one query
\* is never split, however far it exceeds the chunk size.
C4_FlushOnlyAtQueryChange ==
    pc \in {"yielded", "append"} =>
        /\ i < Len(stream) /\ ~Skipped(Line)
        /\ Line.query # this
        /\ pc = "yielded" /\ rids # <<>> =>
              this = rids[Len(rids)] /\ rids[Len(rids)] # Line.query
        /\ pc = "append" => rids = <<>>

\* a flushed chunk that is one run of a single query, longer than n
C4_Witness ==
    /\ pc = "yielded"
    /\ Len(rids) > n
    /\ \A j \in 1..Len(rids) : rids[j] = rids[1]

\* the lines of the current chunk the loop skipped
SkippedLines == {j \in (first + 1)..i : Skipped(stream[j])}

\* C5 as stated: every chunk flushed before the final flush holds at least
\* n ingested records.
C5_ChunkHoldsNRecords == pc = "yielded" => Len(rids) >= n

\* C5 as amended: every chunk flushed before the final flush spans at least
\* n lines of the file, skipped lines included, and holds one record for
\* each of its lines that was not skipped (so at least n records only when
\* none was).
C5_ChunkSpansNLines ==
    pc = "yielded" =>
        /\ i - first >= n
        /\ Len(rids) = (i - first) - Cardinality(SkippedLines)

\* a flushed chunk of n lines or more with fewer than n records
C5_Witness ==
    /\ pc = "yielded"
    /\ i - first >= n
    /\ Len(rids) < n
    /\ SkippedLines # {}

-----------------------------------------------------------------------------
(* The matches of the chunk just flushed, read from rids, locmap, coords   *)
(* and idmap.                                                              *)

\* the nucleotides of the chunk that have genes, each with its read codes
Matched == Range(SelectSeq(locmap, LAMBDA e : Annotated(e[1])))

\* the (read index, gene index) pairs the matching function that flush runs
\* on a nucleotide yields
NuclPairs(e) ==
    IF UseOrdinal(e[2])
    THEN Range(MatchReadGene(Sorted(coords[e[1]] \o e[2])).out)
    ELSE Range(MatchReadGeneNaive(coords[e[1]], e[2]).out)

\* the matches of the chunk: (read index, nucleotide, gene index)
ChunkMatches ==
    UNION {{<<p[1], e[1], p[2]>> : p \in NuclPairs(e)} : e \in Matched}

\* the gene ids emitted for the alignment of index r, given the matches
Matches(cm, r) ==
    {Pfx(t[2], prefix) \o idmap[t[2]][t[3] + 1] :
        t \in {u \in cm : u[1] = r}}

\* the gene ids emitted for all alignments of a read id
MatchesOf(cm, rid) ==
    UNION {Matches(cm, j - 1) : j \in {x \in 1..Len(rids) : rids[x] = rid}}

\* C6: in each chunk a read id on k alignments is exactly one query, whose
\* gene set is the union of the matches of its k alignments, and a read id
\* without any match is no query.
C6_OneQueryPerReadId ==
    Flushed =>
        LET cm == ChunkMatches
        IN  /\ \A a, b \in 1..Len(Last.queries) :
                  Last.queries[a] = Last.queries[b] => a = b
            /\ Range(Last.queries) =
                  {rid \in Range(rids) : MatchesOf(cm, rid) # {}}
            /\ Len(Last.subjects) = Len(Last.queries)
            /\ \A a \in 1..Len(Last.queries) :
                  Last.subjects[a] = MatchesOf(cm, Last.queries[a])

\* a chunk with a read id on two alignments that match different genes
C6_Witness ==
    /\ Flushed
    /\ LET cm == ChunkMatches
       IN  \E a, b \in 1..Len(rids) :
              /\ a # b /\ rids[a] = rids[b]
              /\ Matches(cm, a - 1) # {} /\ Matches(cm, b - 1) # {}
              /\ Matches(cm, a - 1) # Matches(cm, b - 1)
              /\ \E c \in 1..Len(Last.queries) :
                    /\ Last.queries[c] = rids[a]
                    /\ Last.subjects[c] =
                          Matches(cm, a - 1) \cup Matches(cm, b - 1)

\* C7 as stated: flush runs the naive scan on a nucleotide with at most 16
\* read events and the merged sweep on one with more than 16.
C7_CutoffSixteen ==
    Flushed =>
        \A e \in Matched :
            DictHas(algo, e[1]) /\
            DictGet(algo, e[1]) =
                IF Len(e[2]) > 16 THEN "ordinal" ELSE "naive"

\* C7 as amended: flush runs the naive scan on a nucleotide with at most 8
\* read events and the merged sweep on one with more than 8; a nucleotide
\* without genes gets neither.
C7_CutoffEight ==
    Flushed =>
        /\ \A e \in Matched :
              DictHas(algo, e[1]) /\
              DictGet(algo, e[1]) =
                  IF Len(e[2]) > 8 THEN "ordinal" ELSE "naive"
        /\ Range(DictKeys(algo)) = {e[1] : e \in Matched}

\* a flush that ran the merged sweep on 9 to 16 read events
C7_Witness ==
    /\ Flushed
    /\ \E e \in Matched :
          /\ Len(e[2]) > 8 /\ Len(e[2]) <= 16
          /\ DictGet(algo, e[1]) = "ordinal"

\* C8: alignments to a nucleotide that is not in the gene index raise no
\* error and add no pair: the chunk is the one flush yields for the other
\* nucleotides alone, and it is empty when there is no other.
C8_MissingNucleotideDropped ==
    /\ pc # "crashed"
    /\ Flushed =>
          /\ Last = Chunk(Flush(rids, SelectSeq(locmap,
                                    LAMBDA e : Annotated(e[1]))).res)
          /\ Matched = {} => Last.queries = <<>> /\ Last.subjects = <<>>

\* a chunk with an alignment to a nucleotide without genes and a matched
\* alignment to another nucleotide
C8_Witness ==
    /\ Flushed
    /\ \E j \in 1..Len(locmap) : ~Annotated(locmap[j][1])
    /\ Last.queries # <<>>

\* the gene id emitted for gene g of a nucleotide
Emitted(nucl, g) ==
    IF prefix THEN nucl \o "_" \o idmap[nucl][g + 1] ELSE idmap[nucl][g + 1]

\* C9: with prefix, every emitted gene id is contig_id + "_" + gene_id for
\* the nucleotide of the alignment and the gene matched; without, it is the
\* bare gene_id; two nucleotides that share a gene id give distinct emitted
\* ids exactly when prefix is set.
C9_PrefixedGeneIds ==
    Flushed =>
        LET cm == ChunkMatches
        IN  /\ ChunkPairs(Last) =
                  {<<rids[t[1] + 1], Emitted(t[2], t[3])>> : t \in cm}
            /\ \A t, u \in cm :
                  t[2] # u[2] /\ idmap[t[2]][t[3] + 1] = idmap[u[2]][u[3] + 1]
                      => (prefix <=> Emitted(t[2], t[3]) # Emitted(u[2], u[3]))

\* a prefixed chunk in which one read matched the gene g1 of N1 and the
\* gene g1 of N2
C9_Witness ==
    /\ Flushed /\ prefix
    /\ \E a \in 1..Len(Last.queries) :
          Last.subjects[a] = {"N1_g1", "N2_g1"}

\* the pairs match_read_gene yields over the sorted merge of the genes of
\* N1 and all reads of the file, as read and gene ids
SweepPairs ==
    LET c == OneChunk(stream)
    IN  {<<c.rd[p[1] + 1], idmap["N1"][p[2] + 1]>> :
            p \in Range(MatchReadGene(
                    Sorted(coords["N1"] \o DictGet(c.lm, "N1"))).out)}

\* C10 as stated: for the three reads on N1 the mapper's output is
\* r1 -> {g1}, r2 -> {g1, g2}, r3 -> {g3}, and the merged sweep gives the
\* same.
C10_ThreeReadsAsStated ==
    pc = "done" /\ stream = ThreeReads /\ ~prefix =>
        /\ OutPairs = {<<"r1", "g1">>, <<"r2", "g1">>, <<"r2", "g2">>,
                       <<"r3", "g3">>}
        /\ SweepPairs = OutPairs

\* C10 as amended: the output is r1 -> {g1}, r2 -> {g2}, r3 -> {g3} (r2
\* shares 5 positions with g1, fewer than its effective length 15), and the
\* merged sweep gives the same.
C10_ThreeReads ==
    pc = "done" /\ stream = ThreeReads /\ ~prefix =>
        /\ OutPairs = {<<"r1", "g1">>, <<"r2", "g2">>, <<"r3", "g3">>}
        /\ SweepPairs = OutPairs

\* the three reads matched in a single chunk
C10_Witness ==
    /\ pc = "done" /\ stream = ThreeReads /\ ~prefix
    /\ Len(out) = 1
    /\ Last.queries = <<"r1", "r2", "r3">>
    /\ Last.subjects = <<{"g1"}, {"g2"}, {"g3"}>>

-----------------------------------------------------------------------------
(* The events ordinal_mapper buffers for the record it has just ingested. *)

\* the loop has just appended the record of line i
Ingested == pc = "loop" /\ i > 0 /\ ~Skipped(stream[i])

\* the start event buffered for that record
StartEvent ==
    LET locs == DictGet(locmap, stream[i].subject)
    IN  locs[Len(locs) - 1]

\* C11: the start event of an ingested alignment carries the len field
\* min(L, 131071) for L = ceil(length * th), and its position, gene bit and
\* index decode to beg, 0 and the read index: an L over 17 bits is clamped
\* and never spills into the position.
C11_EffectiveLengthClamped ==
    Ingested =>
        /\ LenField(StartEvent) = Min(EffLen(stream[i].length, th), LenMask)
        /\ Pos(StartEvent) = stream[i].beg
        /\ ~IsGene(StartEvent)
        /\ Idx(StartEvent) = Len(rids) - 1

\* a parsed line with beg and end put in order
Normalized(line) ==
    [line EXCEPT !.beg = Min(line.beg, line.end),
                 !.end = Max(line.beg, line.end)]

\* C12: the events buffered for the current chunk are those of its lines
\* with beg and end put in order (start event at the smaller coordinate,
\* end event at the larger), and so are the matches of every chunk yielded.
C12_BeginEndNormalized ==
    LET lines == SubSeq(stream, first + 1, i)
        c == OneChunk([j \in 1..Len(lines) |-> Normalized(lines[j])])
    IN  /\ pc = "loop" => rids = c.rd /\ locmap = c.lm
        /\ Flushed /\ pc # "crashed" => Last = Chunk(Flush(c.rd, c.lm).res)

-----------------------------------------------------------------------------
(* match_read_gene_g1 against match_read_gene, on the drawn queue. *)

GeneStartAt(q, a) == IsGene(q[a]) /\ Bit31(q[a])
GeneEndAt(q, a) == IsGene(q[a]) /\ ~Bit31(q[a])

\* whether a gene begins in q while another one is open
TwoOpen(q) ==
    \E a, b \in 1..Len(q) :
        /\ a < b /\ GeneStartAt(q, a) /\ GeneStartAt(q, b)
        /\ ~\E c \in (a + 1)..(b - 1) :
               GeneEndAt(q, c) /\ Idx(q[c]) = Idx(q[a])

\* match_read_gene has returned or raised
Walked == mpc \in {"done", "crashed"}

-----------------------------------------------------------------------------
(* load_gene_coords.  A line is the sequence of its characters, and so is  *)
(* a nucleotide name or a gene id.  The state of the loop is [coords,      *)
(* idmap, nucl, isdup, used, err], err naming the exception raised.        *)

\* the characters str.strip() and str.rstrip() remove
White == {" ", "\t", "\n"}

Digits == <<"0", "1", "2", "3", "4", "5", "6", "7", "8", "9">>

\* cs.rstrip()
RStrip(cs) ==
    LET keep == {j \in 1..Len(cs) : cs[j] \notin White}
    IN  IF keep = {} THEN <<>>
        ELSE SubSeq(cs, 1, CHOOSE j \in keep : \A m \in keep : m <= j)

\* cs.strip()
Strip(cs) ==
    LET keep == {j \in 1..Len(cs) : cs[j] \notin White}
    IN  IF keep = {} THEN <<>>
        ELSE SubSeq(cs, CHOOSE j \in keep : \A m \in keep : j <= m,
                        CHOOSE j \in keep : \A m \in keep : m <= j)

\* cs.split(sep): the fields between the separators, one more than these
Split(cs, sep) ==
    LET at == {j \in 1..Len(cs) : cs[j] = sep}
        cut(f) == IF f = 0 THEN 0
                  ELSE IF f > Cardinality(at) THEN Len(cs) + 1
                  ELSE CHOOSE j \in at : Cardinality({m \in at : m < j}) = f - 1
    IN  [f \in 1..(Cardinality(at) + 1) |->
            SubSeq(cs, cut(f - 1) + 1, cut(f) - 1)]

\* whether int(f) returns: decimal digits, white space around them allowed
IsInt(f) ==
    /\ Strip(f) # <<>>
    /\ \A j \in 1..Len(Strip(f)) : Strip(f)[j] \in Range(Digits)

\* int(f)
RECURSIVE IntOf(_)
IntOf(f) ==
    LET t == Strip(f)
    IN  IF t = <<>> THEN 0
        ELSE 10 * IntOf(SubSeq(t, 1, Len(t) - 1))
             + (CHOOSE d \in 0..9 : Digits[d + 1] = t[Len(t)])

\* the state before the first line
NoLoad ==
    [coords |-> <<>>, idmap |-> <<>>, nucl |-> Unbound, isdup |-> FALSE,
     used |-> {}, err |-> ""]

\* whether "c0 in '>#'"
IsHeader(line) == line[1] \in {">", "#"}

\* ">" or "#" indicates genome (nucleotide) name; line[1] of a line of one
\* character raises IndexError; a double ">" or "#" is ignored
HeaderLine(st, line) ==
    IF Len(line) < 2 THEN [st EXCEPT !.err = "IndexError"]
    ELSE IF line[2] = line[1] THEN st
    ELSE LET name == Strip(Tail(line))
         IN  [st EXCEPT !.coords = DictSet(@, name, <<>>),
                        !.idmap = DictSet(@, name, <<>>),
                        !.nucl = [bound |-> TRUE, name |-> name]]

\* mutant of CheckDuplicate: the gene ids seen are not kept
CheckDuplicateForgets(st, gene) ==
    IF st.isdup THEN st
    ELSE IF gene \in st.used THEN [st EXCEPT !.isdup = TRUE]
    ELSE st

\* "if isdup is None: if gene in used: isdup = True; else: used_add(gene)"
CheckDuplicate(st, gene) ==
    IF st.isdup THEN st
    ELSE IF gene \in st.used THEN [st EXCEPT !.isdup = TRUE]
    ELSE [st EXCEPT !.used = @ \cup {gene}]

\* mutant of Coordinates: the record not validated
CoordinatesUnchecked(x) ==
    IF Len(x) < 3 \/ ~IsInt(x[2]) \/ ~IsInt(x[3]) THEN <<0, 0>>
    ELSE <<Min(IntOf(x[2]), IntOf(x[3])), Max(IntOf(x[2]), IntOf(x[3]))>>

\* "beg, end = sorted((int(x[1]), int(x[2])))", <<>> when it raises
Coordinates(x) ==
    IF Len(x) < 3 \/ ~IsInt(x[2]) \/ ~IsInt(x[3]) THEN <<>>
    ELSE <<Min(IntOf(x[2]), IntOf(x[3])), Max(IntOf(x[2]), IntOf(x[3]))>>

\* mutant of NoGids: a record before any nucleotide name is skipped
NoGidsSkips(st) == st

\* "idx = len(gids)" while gids is None raises TypeError
NoGids(st) == [st EXCEPT !.err = "TypeError"]

\* a gene record: ValueError when the coordinates cannot be extracted
GeneLine(st, line) ==
    LET x == Split(RStrip(line), "\t")
        be == Coordinates(x)
    IN  IF be = <<>> THEN [st EXCEPT !.err = "ValueError"]
        ELSE IF ~st.nucl.bound THEN NoGids(st)
        ELSE LET name == st.nucl.name
                 idx == Len(DictGet(st.idmap, name))
             IN  CheckDuplicate(
                   [st EXCEPT
                      !.idmap = DictSet(@, name,
                                        Append(DictGet(@, name), x[1])),
                      !.coords = DictSet(@, name,
                                         DictGet(@, name)
                                         \o GenePair(be[1], be[2], idx))],
                   x[1])

\* the body of "for line in fh"; line[0] of an empty line raises
LoadStep(st, line) ==
    IF line = <<>> THEN [st EXCEPT !.err = "IndexError"]
    ELSE IF IsHeader(line) THEN HeaderLine(st, line)
    ELSE GeneLine(st, line)

\* "if sort: for queue in coords.values(): queue.sort()"
SortQueues(c, srt) ==
    IF srt THEN [j \in 1..Len(c) |-> <<c[j][1], Sorted(c[j][2])>>] ELSE c

RECURSIVE LoadWalk(_, _, _)
LoadWalk(st, lines, j) ==
    IF j > Len(lines) \/ st.err # "" THEN st
    ELSE LoadWalk(LoadStep(st, lines[j]), lines, j + 1)

\* load_gene_coords(fh, sort): what it returns, or the exception it raises
LoadGeneCoords(lines, srt) ==
    LET st == LoadWalk(NoLoad, lines, 1)
    IN  [coords |-> SortQueues(st.coords, srt), idmap |-> st.idmap,
         isdup |-> st.isdup, err |-> st.err]

-----------------------------------------------------------------------------
(* calc_gene_lens, on the coords and idmap that the mapper is bound to. *)

\* mutant of GeneStartLen: the start position recorded without the one
GeneStartLenBare(code) == 0 - Pos(code)

\* "res[gid] = 1 - (code >> 48)"
GeneStartLen(code) == 1 - Pos(code)

\* the body of "for code in queue"; res[gid] += raises KeyError when the
\* gene has no entry yet
LensStep(acc, name, gids, code, pre) ==
    LET gid == IF pre THEN name \o <<"_">> \o gids[Idx(code) + 1]
               ELSE gids[Idx(code) + 1]
    IN  IF acc.err # "" THEN acc
        ELSE IF LenField(code) # 0
        THEN [acc EXCEPT !.res = DictSet(@, gid, GeneStartLen(code))]
        ELSE IF ~DictHas(acc.res, gid) THEN [acc EXCEPT !.err = "KeyError"]
        ELSE [acc EXCEPT !.res = DictSet(@, gid,
                                         DictGet(@, gid) + Pos(code))]

RECURSIVE LensQueue(_, _, _, _, _, _)
LensQueue(acc, name, gids, q, j, pre) ==
    IF j > Len(q) THEN acc
    ELSE LensQueue(LensStep(acc, name, gids, q[j], pre), name, gids, q,
                   j + 1, pre)

RECURSIVE LensWalk(_, _, _, _, _)
LensWalk(acc, c, im, j, pre) ==
    IF j > Len(c) THEN acc
    ELSE LensWalk(LensQueue(acc, c[j][1], DictGet(im, c[j][1]), c[j][2], 1,
                            pre),
                  c, im, j + 1, pre)

\* calc_gene_lens(mapper), for the coords, idmap and prefix of the mapper
CalcGeneLens(c, im, pre) ==
    LET acc == LensWalk([res |-> <<>>, err |-> ""], c, im, 1, pre)
    IN  [prefix |-> pre, res |-> acc.res, err |-> acc.err]

-----------------------------------------------------------------------------
(* The steps of load_gene_coords, one line of the file per step, and of    *)
(* calc_gene_lens on what it returns.                                      *)

\* the lines of nucleotides A and B and of genes g [1, 2] and h [2, 10]
GCommon ==
    {<<">", "A", "\n">>, <<">", "B", "\n">>,
     <<"g", "\t", "1", "\t", "2", "\n">>,
     <<"h", "\t", "1", "0", "\t", "2", "\n">>}

\* a nucleotide without name, a genome name, a blank line, a record with a
\* coordinate that is no integer, one without end, a "#" cut short at the
\* end of the file, and a gene that begins where it ends
GOdd ==
    {<<">", "\n">>, <<">", ">", "G", "\n">>, <<"\n">>,
     <<"g", "\t", "x", "\t", "2", "\n">>, <<"h", "\t", "3", "\n">>,
     <<"#">>, <<"h", "\t", "2", "\t", "2", "\n">>}

\* the gene coordinates files: up to MaxLines lines, at most MaxOdd of GOdd
GeneFiles(s) ==
    /\ Len(s) <= MaxLines
    /\ \A j \in DOMAIN s : s[j] \in GCommon \cup GOdd
    /\ Cardinality({j \in DOMAIN s : s[j] \in GOdd}) <= MaxOdd

\* the lines the file handle can give next
NextGeneLines == {line \in GCommon \cup GOdd : GeneFiles(Append(fh, line))}

InitLoad ==
    /\ fh = <<>>
    /\ sort \in BOOLEAN
    /\ lcoords = <<>>
    /\ lidmap = <<>>
    /\ lnucl = Unbound
    /\ isdup = FALSE
    /\ used = {}
    /\ lens = [prefix |-> FALSE, res |-> <<>>, err |-> ""]
    /\ lerr = ""
    /\ lpc = "read"
    /\ IdleMapper
    /\ IdleWalk
    /\ IdleIds

\* the state of the loop
LoadSt ==
    [coords |-> lcoords, idmap |-> lidmap, nucl |-> lnucl, isdup |-> isdup,
     used |-> used, err |-> ""]

\* one turn of "for line in fh"
Took(st, line) ==
    /\ fh' = Append(fh, line)
    /\ lcoords' = st.coords
    /\ lidmap' = st.idmap
    /\ lnucl' = st.nucl
    /\ isdup' = st.isdup
    /\ used' = st.used
    /\ lerr' = st.err
    /\ lpc' = IF st.err = "" THEN "read" ELSE "raised"
    /\ UNCHANGED <<mvars, qvars, ivars, sort, lens>>

\* a nucleotide name
NuclLine ==
    /\ lpc = "read"
    /\ \E line \in NextGeneLines :
          /\ IsHeader(line) /\ Len(line) >= 2 /\ line[2] # line[1]
          /\ Took(LoadStep(LoadSt, line), line)

\* a genome name, "to be ignored"
GenomeLine ==
    /\ lpc = "read"
    /\ \E line \in NextGeneLines :
          /\ IsHeader(line) /\ Len(line) >= 2 /\ line[2] = line[1]
          /\ Took(LoadStep(LoadSt, line), line)

\* a ">" or "#" with nothing after it
TruncatedLine ==
    /\ lpc = "read"
    /\ \E line \in NextGeneLines :
          /\ IsHeader(line) /\ Len(line) < 2
          /\ Took(LoadStep(LoadSt, line), line)

\* a gene record that is taken
GeneRecord ==
    /\ lpc = "read"
    /\ \E line \in NextGeneLines :
          /\ ~IsHeader(line) /\ LoadStep(LoadSt, line).err = ""
          /\ Took(LoadStep(LoadSt, line), line)

\* "raise ValueError(f'Cannot extract coordinates from line: ...')"
BadCoordinates ==
    /\ lpc = "read"
    /\ \E line \in NextGeneLines :
          /\ ~IsHeader(line) /\ LoadStep(LoadSt, line).err = "ValueError"
          /\ Took(LoadStep(LoadSt, line), line)

\* a gene record before any nucleotide name: len(gids) raises TypeError
NoNucleotide ==
    /\ lpc = "read"
    /\ \E line \in NextGeneLines :
          /\ ~IsHeader(line) /\ LoadStep(LoadSt, line).err = "TypeError"
          /\ Took(LoadStep(LoadSt, line), line)

\* the file handle is exhausted: sort, "return coords, idmap, isdup or False"
Return ==
    /\ lpc = "read"
    /\ lcoords' = SortQueues(lcoords, sort)
    /\ lpc' = "done"
    /\ UNCHANGED <<mvars, qvars, ivars, fh, sort, lidmap, lnucl, isdup, used,
                   lens, lerr>>

\* calc_gene_lens on a mapper bound to the coords and idmap returned
CalcLens ==
    /\ lpc = "done"
    /\ \E pre \in BOOLEAN : lens' = CalcGeneLens(lcoords, lidmap, pre)
    /\ lpc' = "lens"
    /\ UNCHANGED <<mvars, qvars, ivars, fh, sort, lcoords, lidmap, lnucl,
                   isdup, used, lerr>>

NextLoad ==
    \/ NuclLine
    \/ GenomeLine
    \/ TruncatedLine
    \/ GeneRecord
    \/ BadCoordinates
    \/ NoNucleotide
    \/ Return
    \/ CalcLens

SpecLoad == InitLoad /\ [][NextLoad]_vars

-----------------------------------------------------------------------------
(* The gene coordinates file as read so far, taken apart line by line. *)

\* whether line j names a nucleotide
Names(j) == IsHeader(fh[j]) /\ Len(fh[j]) >= 2 /\ fh[j][2] # fh[j][1]

\* the name that line j gives the nucleotide
NameAt(j) == Strip(Tail(fh[j]))

\* the gene records of the pool that are sound, and those that are not
GoodRecords ==
    {line \in GCommon \cup GOdd :
        /\ ~IsHeader(line)
        /\ LET x == Split(RStrip(line), "\t")
           IN  Len(x) >= 3 /\ IsInt(x[2]) /\ IsInt(x[3])}
BadRecords == {<<"g", "\t", "x", "\t", "2", "\n">>, <<"h", "\t", "3", "\n">>}

\* the fields of the sound record of line j: gene id, begin and end
Record(j) ==
    LET x == Split(RStrip(fh[j]), "\t")
    IN  [gene |-> x[1], beg |-> IntOf(x[2]), end |-> IntOf(x[3])]

\* whether line j is a sound gene record under the nucleotide name
Under(j, name) ==
    /\ fh[j] \in GoodRecords
    /\ \E h \in 1..(j - 1) :
          /\ Names(h) /\ NameAt(h) = name
          /\ \A m \in (h + 1)..(j - 1) : ~Names(m)

\* the lines of the gene records of a nucleotide, in file order
RecordLines(name) ==
    LET at == {j \in 1..Len(fh) : Under(j, name)}
    IN  [r \in 1..Cardinality(at) |->
            CHOOSE j \in at : Cardinality({m \in at : m < j}) = r - 1]

\* sorted ascending
IsSorted(q) == \A a, b \in 1..Len(q) : a < b => ~CodeLess(q[b], q[a])

\* load_gene_coords has returned
Returned == lpc \in {"done", "lens"}

\* C13: after load_gene_coords(fh, sort=True) returns, every nucleotide
\* named in the file has a queue that is sorted, that holds exactly two
\* events for each of its gene records, a start with len field 1 at
\* min(begin, end) and an end with len field 0 at max(begin, end), both with
\* the gene bit and the same index, and every index of the queue is one of
\* idmap.
C13_TwoEventsPerGeneRecord ==
    Returned /\ sort =>
        \A h \in {j \in 1..Len(fh) : Names(j)} :
            /\ DictHas(lcoords, NameAt(h)) /\ DictHas(lidmap, NameAt(h))
            /\ LET q == DictGet(lcoords, NameAt(h))
                   ids == DictGet(lidmap, NameAt(h))
                   recs == RecordLines(NameAt(h))
               IN  /\ IsSorted(q)
                   /\ Len(q) = 2 * Len(recs)
                   /\ \A code \in Range(q) :
                         IsGene(code) /\ Idx(code) < Len(ids)
                   /\ \A r \in 1..Len(recs) :
                         LET rec == Record(recs[r])
                         IN  /\ [pos |-> Min(rec.beg, rec.end), len |-> 1,
                                 gene |-> 1, idx |-> r - 1] \in Range(q)
                             /\ [pos |-> Max(rec.beg, rec.end), len |-> 0,
                                 gene |-> 1, idx |-> r - 1] \in Range(q)

\* the lines that are sound gene records
SoundLines == {j \in 1..Len(fh) : fh[j] \in GoodRecords}

C15_MalformedCoordinatesRaise ==
    \A j \in 1..Len(fh) :
        fh[j] \in BadRecords =>
            j = Len(fh) /\ lpc = "raised" /\ lerr = "ValueError"

\* the error raised after sound records were taken
C15_Witness ==
    /\ lpc = "raised" /\ lerr = "ValueError"
    /\ fh[Len(fh)] \in BadRecords
    /\ lidmap # <<>> /\ lidmap[1][2] # <<>>

\* whether no line before line j names a nucleotide
Orphan(j) == fh[j] \in GoodRecords /\ \A h \in 1..(j - 1) : ~Names(h)

\* C16: a sound gene record that comes before any line naming a nucleotide
\* ends load_gene_coords with an exception at that line (the TypeError of
\* len(gids) with gids None); no index is returned.
C16_OrphanRecordRaises ==
    \A j \in 1..Len(fh) :
        Orphan(j) => j = Len(fh) /\ lpc = "raised" /\ lerr = "TypeError"

\* the exception raised by a record that follows only a genome name
C16_Witness ==
    /\ Len(fh) >= 2 /\ Orphan(Len(fh))
    /\ lpc = "raised" /\ lerr = "TypeError"

\* whether line j is a ">" or "#" followed by nothing but whitespace
Nameless(j) == IsHeader(fh[j]) /\ Strip(Tail(fh[j])) = <<>>

\* C17: a ">" or "#" line whose name is empty ends load_gene_coords with an
\* exception at that line, and the coords returned never have a nucleotide
\* whose name is the empty string.
C17_EmptyNameRaises ==
    /\ \A j \in 1..Len(fh) : Nameless(j) => j = Len(fh) /\ lpc = "raised"
    /\ Returned => ~DictHas(lcoords, <<>>)

\* a blank line, and the lines that are none
Blank == <<"\n">>
NotBlank(line) == line # Blank

\* C18: a blank line is ignored: when the file without its blank lines is
\* accepted, the file with them raises nothing and returns the same coords,
\* idmap and duplicate flag.
C18_BlankLinesIgnored ==
    LET clean == LoadGeneCoords(SelectSeq(fh, NotBlank), sort)
    IN  clean.err = "" =>
            /\ lpc # "raised"
            /\ Returned =>
                  /\ lcoords = clean.coords
                  /\ lidmap = clean.idmap
                  /\ isdup = clean.isdup

\* the genes of the index returned: nucleotide j of idmap, gene k of it
GeneSlots == {slot \in (1..Len(lidmap)) \X (1..(2 * MaxLines)) :
                 slot[2] <= Len(lidmap[slot[1]][2])}

\* no gene id is given to two genes
UniqueIds ==
    \A a, b \in GeneSlots :
        lidmap[a[1]][2][a[2]] = lidmap[b[1]][2][b[2]] => a = b

\* in every queue the start of a gene comes before its end
StartsFirst ==
    \A j \in 1..Len(lcoords) :
        LET q == lcoords[j][2]
        IN  \A a, b \in 1..Len(q) :
                Idx(q[a]) = Idx(q[b]) /\ LenField(q[a]) # 0
                    /\ LenField(q[b]) = 0 => a < b

\* the key of a gene in the lengths, and its start and end in the queue
LensKey(slot) ==
    IF lens.prefix
    THEN lidmap[slot[1]][1] \o <<"_">> \o lidmap[slot[1]][2][slot[2]]
    ELSE lidmap[slot[1]][2][slot[2]]
SlotEvent(slot, isstart) ==
    LET q == DictGet(lcoords, lidmap[slot[1]][1])
    IN  CHOOSE code \in Range(q) :
            Idx(code) = slot[2] - 1 /\ (LenField(code) # 0) = isstart

\* the lengths hold end - start + more for every gene, and nothing else
LensAre(more) ==
    /\ lens.err = ""
    /\ Range(DictKeys(lens.res)) = {LensKey(slot) : slot \in GeneSlots}
    /\ \A slot \in GeneSlots :
          DictGet(lens.res, LensKey(slot)) =
              Pos(SlotEvent(slot, FALSE)) - Pos(SlotEvent(slot, TRUE)) + more

\* C19 as stated: with unique gene ids and every start before its end,
\* calc_gene_lens maps every gene, under its id or nucleotide_id, to
\* end - start, from -pos recorded at the start and pos added at the end.
C19_LensEndMinusStart ==
    lpc = "lens" /\ UniqueIds /\ StartsFirst => LensAre(0)

\* C19 amended: under the same conditions calc_gene_lens maps every gene to
\* end - start + 1, from 1 - pos recorded at the start and pos added at the
\* end.
C19_LensEndMinusStartPlusOne ==
    lpc = "lens" /\ UniqueIds /\ StartsFirst => LensAre(1)

\* the lengths of two genes of one nucleotide, keyed with its name
C19_Witness ==
    /\ lpc = "lens" /\ UniqueIds /\ StartsFirst /\ lens.prefix
    /\ \E slot \in GeneSlots : slot[2] = 2
    /\ LensAre(1)

-----------------------------------------------------------------------------
(* The packed integer, as its two halves: code >> 31 and the low 31 bits. *)

\* mutant of High: the len field above the position
HighLenFirst(code) == code.len * LenSize + code.pos

\* the bits from 31 up: (pos << 17) + len
High(code) == Shr31(code)

\* the bits below 31: (gene << 30) + idx
Low(code) == code.gene * IdxSize + code.idx

\* a < b, for the integers a and b that the two codes are
IntLess(a, b) ==
    \/ High(a) < High(b)
    \/ High(a) = High(b) /\ Low(a) < Low(b)

\* a < b as integers only if a comes before b in the sweep
SweepOrdered(a, b) ==
    IntLess(a, b) =>
        \/ Pos(a) < Pos(b)
        \/ Pos(a) = Pos(b) /\ ~(LenField(a) > 0 /\ LenField(b) = 0)

\* C21: for the packed events of the genes and reads of one nucleotide,
\* a < b as integers only if a lies at a smaller position than b, or at the
\* same one and not a as a start (len field > 0) with b as an end (len field
\* 0); the sorted queue is ascending in that order, so it goes by position
\* first and has every end before every start of the same position.  This
\* is stated of every queue drawn; the walk leaves the queue as it is.
C21_NumericOrderIsSweepOrder ==
    mpc = "naive" =>
        \A x \in 1..Len(queue) : \A y \in (x + 1)..Len(queue) :
            /\ SweepOrdered(queue[x], queue[y])
            /\ SweepOrdered(queue[y], queue[x])
            /\ ~IntLess(queue[y], queue[x])
            /\ Pos(queue[x]) <= Pos(queue[y])
            /\ Pos(queue[x]) = Pos(queue[y]) /\ LenField(queue[y]) = 0
                  => LenField(queue[x]) = 0

\* a gene that ends where a read begins: the end comes first in the queue
C21_Witness ==
    \E x, y \in 1..Len(queue) :
        /\ mpc = "naive"
        /\ x < y /\ Pos(queue[x]) = Pos(queue[y])
        /\ IsGene(queue[x]) /\ LenField(queue[x]) = 0
        /\ ~IsGene(queue[y]) /\ LenField(queue[y]) > 0

-----------------------------------------------------------------------------
(* The buffers of ordinal_mapper between two flushes. *)

\* the queries of the records ingested since the flush before the last one
ChunkQueries == {stream[j].query : j \in {m \in (first + 1)..i :
                                             ~Skipped(stream[m])}}

\* C22: after a flush in mid-file rids and locmap are empty before the next
\* record is appended; at every moment every read index in locmap is below
\* len(rids); and the chunk just yielded names only queries of the records
\* ingested since the flush before it.
C22_BuffersClearedAndIndexed ==
    /\ pc = "append" => rids = <<>> /\ locmap = <<>>
    /\ \A e \in Range(locmap) :
          \A code \in Range(e[2]) : Idx(code) < Len(rids)
    /\ Flushed /\ out # <<>> => Range(Last.queries) \subseteq ChunkQueries

\* a second chunk yielded in mid-file without a query of the first
C22_Witness ==
    /\ pc = "yielded" /\ Len(out) >= 2 /\ Last.queries # <<>>
    /\ \E q \in Range(out[1].queries) : q \notin Range(Last.queries)

-----------------------------------------------------------------------------
(* The gene index that ordinal_mapper is bound to. *)

\* coords and idmap as load_gene_coords built them from the gene table
Built ==
    [coords |-> [c \in DOMAIN GeneTable |-> GeneQueue(GeneTable[c])],
     idmap |-> [c \in DOMAIN GeneTable |-> GeneIds(GeneTable[c])]]

\* C23: whatever ordinal_mapper has done so far, ingesting, flushing with
\* either matching function, or looking up a nucleotide that the index does
\* not have, coords and idmap are what they were before the first chunk:
\* the same nucleotides, each with the same queue and the same gene ids.
C23_GeneIndexUnchanged == coords = Built.coords /\ idmap = Built.idmap

\* two chunks flushed, the last with alignments to a nucleotide that the
\* index does not have
C23_Witness ==
    /\ Flushed /\ Len(out) >= 2
    /\ \E j \in 1..Len(locmap) : locmap[j][1] \notin DOMAIN Built.coords
    /\ \E j \in 1..Len(locmap) : locmap[j][1] \in DOMAIN Built.coords

-----------------------------------------------------------------------------
(* ordinal_mapper on a file that ends: the loop is left once the file      *)
(* handle is exhausted, and a generator that is iterated runs on.          *)

\* the loop is at a record or at the end of the file, with the final flush
\* ahead of it
InLoop == pc = "loop"

\* ordinal_mapper called with prefix left at its default, False
InitLive == Init /\ ~prefix

\* A generator that is resumed runs to its next yield: Resume and Ingest
\* are taken when they stay enabled, and so is the final flush, which is
\* enabled exactly while the loop is at "for i, line in enumerate(...)".
SpecLive ==
    /\ InitLive /\ [][Next]_vars
    /\ WF_vars(Resume) /\ WF_vars(Ingest)
    /\ ([]<>~InLoop \/ []<><<FinalFlush>>_vars)

\* the queries of the records among lines a..b of the file, in file order
RECURSIVE QueriesOf(_, _)
QueriesOf(a, b) ==
    IF b < a THEN <<>>
    ELSE IF Skipped(stream[b]) THEN QueriesOf(a, b - 1)
    ELSE Append(QueriesOf(a, b - 1), stream[b].query)

\* the number of reads a flush had in locmap, from its line of stats.txt
RECURSIVE ReadsOf(_)
ReadsOf(nums) == IF nums = <<>> THEN 0 ELSE nums[1] + ReadsOf(Tail(nums))

\* the number of reads all flushes so far had in locmap
RECURSIVE ReadsFlushed(_)
ReadsFlushed(j) == IF j = 0 THEN 0 ELSE ReadsOf(stats[j]) + ReadsFlushed(j - 1)

\* whenever a flush has returned, the chunk it matched is the records of
\* the lines since the flush before, in file order, and all flushes together
\* had each record up to here once
InOrderOnce ==
    Flushed =>
        /\ rids = QueriesOf(first + 1, i)
        /\ ReadsOf(stats[Len(stats)]) = Len(rids)
        /\ ReadsFlushed(Len(stats)) = Len(QueriesOf(1, i))
        /\ pc = "done" => i = Len(stream)

-----------------------------------------------------------------------------
(* match_read_gene_naive on the drawn gene queue and read queue. *)

\* the (read, gene) pairs that overlap by the effective length of the read
Overlapping ==
    {<<p[1].idx, p[2].idx>> : p \in {q \in QReads \X QGenes :
                                        Shared(q[1], q[2]) >= q[1].L}}

\* C25: for a sorted gene queue and a read queue of (start, end) pairs,
\* match_read_gene_naive returns having yielded (read index, gene index)
\* for exactly the reads and genes with
\* min(gene_end, r_end) - max(gene_start, r_begin) >= L, L being the len
\* field of the start of the read.
C25_NaiveYieldsOverlapRule ==
    mpc # "naive" => ~naive.err /\ Range(naive.out) = Overlapping

-----------------------------------------------------------------------------
(* A read and a gene that meet at one end only. *)

\* the read begins where the gene ends, or the gene begins where the read
\* ends, and they share no other position
Touching(r, g) ==
    \/ r.beg = g.end
    \/ g.beg = r.end

\* C27: a read and a gene that share one boundary position only, the read
\* beginning where the gene ends or the gene beginning where the read ends,
\* are yielded as a pair neither by match_read_gene, whether its walk came
\* to the end of the queue or raised, nor by match_read_gene_naive.
C27_TouchingNeverMatched ==
    mpc \in {"done", "crashed"} =>
        \A r \in QReads, g \in QGenes :
            Touching(r, g) =>
                /\ <<r.idx, g.idx>> \notin Range(yielded)
                /\ <<r.idx, g.idx>> \notin Range(naive.out)

\* both functions have run to their end on a read that begins where a gene
\* of more than one position ends
C27_Witness ==
    /\ mpc = "done" /\ ~naive.err
    /\ \E r \in QReads, g \in QGenes :
          r.beg = g.end /\ g.beg < g.end /\ r.beg < r.end /\ r.L = 1

\* C28: for the sorted queue of genes and reads with begin <= end, those
\* with begin = end included, every end that match_read_gene comes to finds
\* its start in the cache: no pop raises, and both caches are empty once
\* the queue is exhausted.
C28_PopNeverFails ==
    /\ mpc # "crashed"
    /\ mpc = "done" => genes = <<>> /\ reads = <<>>

\* C29: match_read_gene yields no (read index, gene index) pair twice for
\* one queue, also when the read and the gene end at the same position:
\* the pairs yielded when the walk has ended or raised are all different.
C29_PairYieldedOnce ==
    mpc \in {"done", "crashed"} =>
        \A a, b \in 1..Len(yielded) : yielded[a] = yielded[b] => a = b

\* a pair yielded for a read and a gene that end at the same position
C29_Witness ==
    /\ mpc = "done"
    /\ \E r \in QReads, g \in QGenes :
          r.end = g.end /\ <<r.idx, g.idx>> \in Range(yielded)

-----------------------------------------------------------------------------
(* match_read_gene against match_read_gene_dummy, on the drawn queues. *)

\* C26: when match_read_gene has walked the sorted packed queue, the set of
\* (read, gene) pairs it yielded is the set that match_read_gene_dummy
\* yields over the sorted tuples of the same genes and reads, for every
\* threshold th and all alignment lengths with L = ceil(length * th) in the
\* packed start of each read; and it raised exactly when the dummy does.
C26_PackedEqualsDummy ==
    Walked =>
        \A c \in DOMAIN dummy :
            /\ Range(dummy[c].out) = Range(yielded)
            /\ dummy[c].err <=> mpc = "crashed"

\* a pair yielded by both for a read that shares with the gene one position
\* fewer than its effective length, counted as end - start
C26_Witness ==
    /\ mpc = "done" /\ dummy # <<>>
    /\ \E r \in QReads, g \in QGenes :
          /\ Shared(r, g) = r.L - 1
          /\ <<r.idx, g.idx>> \in Range(yielded)
          /\ \A c \in DOMAIN dummy : <<r.idx, g.idx>> \in Range(dummy[c].out)

-----------------------------------------------------------------------------
(* The gene ids that load_gene_coords returns for a nucleotide. *)

\* C30: when load_gene_coords returns, idmap has, for every nucleotide
\* named in the file, the gene ids of all the records read under a line of
\* that name, in file order, also when the name is given more than once.
C30_EveryRecordIndexed ==
    Returned =>
        \A h \in {j \in 1..Len(fh) : Names(j)} :
            /\ DictHas(lidmap, NameAt(h))
            /\ DictGet(lidmap, NameAt(h)) =
                  [r \in 1..Len(RecordLines(NameAt(h))) |->
                      Record(RecordLines(NameAt(h))[r]).gene]

-----------------------------------------------------------------------------
(* read_ids (woltka/file.py): the IDs of a list, one line per step.  A     *)
(* line is the sequence of its characters, line terminator included.       *)

\* s.partition(sep)[0]: the part before the first sep, all of s without one
PartitionHead(s, sep) ==
    IF \E j \in 1..Len(s) : s[j] = sep
    THEN SubSeq(s, 1, (CHOOSE j \in 1..Len(s) :
                          /\ s[j] = sep
                          /\ \A m \in 1..(j - 1) : s[m] # sep) - 1)
    ELSE s

\* line.startswith('#')
StartsWithHash(line) == line # <<>> /\ line[1] = "#"

\* id_ = line.strip().partition('\t')[0]
IdOf(line) == PartitionHead(Strip(line), "\t")

\* one round of "for line in fh": res after the line
IdsAfter(res, line) ==
    IF ~StartsWithHash(line) /\ IdOf(line) # <<>>
    THEN Append(res, IdOf(line))
    ELSE res

\* len(set(res)) < len(res)
HasDuplicates(res) == Cardinality(Range(res)) < Len(res)

\* the characters of the lines drawn: a letter, the comment mark, the tab
IdChars == {"a", "#", "\t"}

\* the sequences over IdChars of length m
RECURSIVE IdTexts(_)
IdTexts(m) ==
    IF m = 0 THEN {<<>>}
    ELSE {Append(t, c) : t \in IdTexts(m - 1), c \in IdChars}

\* the lines drawn: up to MaxIdLen characters and the line terminator
IdLines == {Append(t, "\n") : t \in UNION {IdTexts(m) : m \in 0..MaxIdLen}}

InitIds ==
    /\ idfh = <<>>
    /\ idres = <<>>
    /\ ierr = ""
    /\ ipc = "call"
    /\ IdleMapper
    /\ IdleWalk
    /\ IdleLoad

\* "if fh is None: return"
ReturnNone ==
    /\ ipc = "call"
    /\ ipc' = "none"
    /\ UNCHANGED <<mvars, qvars, lvars, idfh, idres, ierr>>

\* fh is an iterable of lines: "res = []"
StartIds ==
    /\ ipc = "call"
    /\ idres' = <<>>
    /\ ipc' = "loop"
    /\ UNCHANGED <<mvars, qvars, lvars, idfh, ierr>>

\* one round of the loop, on the next line of fh
ReadIdLine ==
    /\ ipc = "loop" /\ Len(idfh) < MaxIdLines
    /\ \E line \in IdLines :
          /\ idfh' = Append(idfh, line)
          /\ idres' = IdsAfter(idres, line)
    /\ UNCHANGED <<mvars, qvars, lvars, ierr, ipc>>

\* fh is exhausted and "not res"
NoIds ==
    /\ ipc = "loop" /\ idres = <<>>
    /\ ierr' = "No ID is read."
    /\ ipc' = "raised"
    /\ UNCHANGED <<mvars, qvars, lvars, idfh, idres>>

\* fh is exhausted and an ID is in res twice
DuplicateIds ==
    /\ ipc = "loop" /\ idres # <<>> /\ HasDuplicates(idres)
    /\ ierr' = "Duplicate IDs found."
    /\ ipc' = "raised"
    /\ UNCHANGED <<mvars, qvars, lvars, idfh, idres>>

\* fh is exhausted: "return res"
ReturnIds ==
    /\ ipc = "loop" /\ idres # <<>> /\ ~HasDuplicates(idres)
    /\ ipc' = "returned"
    /\ UNCHANGED <<mvars, qvars, lvars, idfh, idres, ierr>>

NextIds ==
    \/ ReturnNone
    \/ StartIds
    \/ ReadIdLine
    \/ NoIds
    \/ DuplicateIds
    \/ ReturnIds

SpecIds == InitIds /\ [][NextIds]_vars

-----------------------------------------------------------------------------
(* The ID list as read, column by column. *)

\* the line without its terminator
Chomp(line) ==
    IF line # <<>> /\ line[Len(line)] = "\n"
    THEN SubSeq(line, 1, Len(line) - 1)
    ELSE line

\* the first tab-separated column of the line
FirstColumn(line) == PartitionHead(Chomp(line), "\t")

\* the first columns of lines 1..j that do not start with '#', in input
\* order, the empty ones left out
RECURSIVE FirstColumns(_)
FirstColumns(j) ==
    IF j = 0 THEN <<>>
    ELSE IF StartsWithHash(idfh[j]) \/ FirstColumn(idfh[j]) = <<>>
         THEN FirstColumns(j - 1)
         ELSE Append(FirstColumns(j - 1), FirstColumn(idfh[j]))

\* C31: read_ids on an input that is not None either raises ValueError, with
\* no ID read or with an ID read twice, or returns a list that is not empty,
\* has no ID twice and is, in input order, the first tab-separated column of
\* every line that does not start with '#', the lines with an empty first
\* column left out.
C31_IdsAreFirstColumns ==
    /\ ipc = "raised" =>
          /\ ierr \in {"No ID is read.", "Duplicate IDs found."}
          /\ idres = <<>> \/ HasDuplicates(idres)
    /\ ipc = "returned" =>
          /\ ierr = ""
          /\ idres # <<>> /\ ~HasDuplicates(idres)
          /\ idres = FirstColumns(Len(idfh))

=============================================================================
